---- MODULE Spec2Model ----
(***************************************************************************)
(* Bring-up of the RISC-V "rhea" board (hw/riscv/rhea.c).                  *)
(*                                                                         *)
(* The model follows rhea_machine_init statement by statement: pc is the   *)
(* position inside the function, the other variables are the objects the   *)
(* function touches (the hart arrays s->soc[], the system address space,   *)
(* the two memory regions it allocates, the list of ROM blobs).            *)
(* exit(1), &error_fatal and &error_abort end the process: pc = "aborted". *)
(***************************************************************************)
EXTENDS Integers, Sequences, FiniteSets, TLC

(***************************************************************************)
(* Bounds of the model.                                                    *)
(***************************************************************************)
\* largest socket count the topology provider reports in the model
MaxSockets == 2
\* hart ids are drawn from 0..MaxHartId
MaxHartId == 4
\* the RAM backing has a size of 1..MaxRamUnits times RamUnit
MaxRamUnits == 3
\* the first RomWindow bytes of the ROM are modelled
RomWindow == 18

(***************************************************************************)
(* Program constants.                                                      *)
(***************************************************************************)
KiB == 1024

MiB == 1024 * KiB

\* granularity of the RAM sizes of the model
RamUnit == 190 * MiB

RHEA_RISCV_CPUS_MAX == 4

RHEA_SOCKETS_MAX == 1

RHEA_ROM == 0

RHEA_SRAM == 1

RHEA_UART0 == 2

RHEA_DRAM == 3

\* variant of rhea_memmap: SRAM placed at 0x00010000, inside the ROM range
rhea_memmap_overlap ==
    [k \in {RHEA_ROM, RHEA_SRAM, RHEA_UART0, RHEA_DRAM} |->
        CASE k = RHEA_ROM   -> [base |-> 0,          size |-> 256 * KiB]
          [] k = RHEA_SRAM  -> [base |-> 64 * KiB,   size |-> 512 * KiB]
          [] k = RHEA_UART0 -> [base |-> 96 * MiB,   size |-> 256]
          [] k = RHEA_DRAM  -> [base |-> 1024 * MiB, size |-> 570 * MiB]]

\* 0x00100000 = 1 MiB, 0x06000000 = 96 MiB, 0x40000000 = 1024 MiB, 0x100 = 256
rhea_memmap ==
    [k \in {RHEA_ROM, RHEA_SRAM, RHEA_UART0, RHEA_DRAM} |->
        CASE k = RHEA_ROM   -> [base |-> 0,          size |-> 256 * KiB]
          [] k = RHEA_SRAM  -> [base |-> 1 * MiB,    size |-> 512 * KiB]
          [] k = RHEA_UART0 -> [base |-> 96 * MiB,   size |-> 256]
          [] k = RHEA_DRAM  -> [base |-> 1024 * MiB, size |-> 570 * MiB]]

\* variant of mc_max_cpus: the limit is one too high
mc_max_cpus_off_by_one == RHEA_RISCV_CPUS_MAX + 1

\* the machine class, as rhea_machine_class_init fills it
mc_max_cpus == RHEA_RISCV_CPUS_MAX

mc_default_cpu_type == "TYPE_RISCV_CPU_BASE"

mc_default_ram_id == "riscv.rhea.dram"

mc_default_ram_size == rhea_memmap[RHEA_DRAM].size

\* the words of reset_vec[4] = { 0x0000006f }: the rest is zero-initialised
reset_vec == <<111, 0, 0, 0>>

(***************************************************************************)
(* Inputs.                                                                 *)
(***************************************************************************)
HartIds == 0..MaxHartId

CpuTypes == {mc_default_cpu_type, "rv32"}

RamSizes == {k * RamUnit : k \in 1..MaxRamUnits}

RECURSIVE SumCard(_, _)
SumCard(f, n) == IF n = 0 THEN 0 ELSE Cardinality(f[n]) + SumCard(f, n - 1)

\* a topology: for each socket, the hart ids that belong to it
Topologies ==
    UNION {{t \in [1..n -> SUBSET HartIds] :
                \A a, b \in 1..n : a # b => t[a] \cap t[b] = {}}
           : n \in 0..MaxSockets}

SetMin(S) == CHOOSE x \in S : \A y \in S : x <= y

SetMax(S) == CHOOSE x \in S : \A y \in S : y <= x

\* ms->smp.cpus: the number of harts requested in total
smp_cpus(m) == SumCard(m.sockets, Len(m.sockets))

(***************************************************************************)
(* The topology provider (hw/riscv/numa.c), socket ids 0 .. count-1.       *)
(***************************************************************************)
riscv_socket_count(m) == Len(m.sockets)

SocketIds(m, socket_id) == m.sockets[socket_id + 1]

riscv_socket_first_hartid(m, socket_id) ==
    IF SocketIds(m, socket_id) = {} THEN -1 ELSE SetMin(SocketIds(m, socket_id))

riscv_socket_hart_count(m, socket_id) ==
    IF SocketIds(m, socket_id) = {} THEN -1 ELSE Cardinality(SocketIds(m, socket_id))

\* the hart ids are the arithmetic run [base, base + count)
riscv_socket_check_hartids(m, socket_id) ==
    LET ids == SocketIds(m, socket_id) IN
    ids = {} \/ ids = SetMin(ids)..SetMax(ids)

(***************************************************************************)
(* State.                                                                  *)
(***************************************************************************)
VARIABLES
    ms,                \* MachineState: sockets, cpu_type, ram (its size)
    host_big_endian,   \* byte order of the host the binary is built for
    pc,                \* position in the bring-up
    err,               \* why the process was ended, "" while it runs
    i,                 \* local i
    base_hartid,       \* local base_hartid
    hart_count,        \* local hart_count
    soc,               \* s->soc[]: the hart arrays
    mask_rom,          \* *mask_rom
    sram,              \* *sram
    system_memory,     \* subregions of get_system_memory(), in mount order
    roms,              \* blobs registered with rom_add_blob_fixed_as
    rom_data,          \* the first bytes of the memory behind mask_rom
    log                \* history: the externally visible steps, in order

vars == <<ms, host_big_endian, pc, err, i, base_hartid, hart_count, soc,
          mask_rom, sram, system_memory, roms, rom_data, log>>

UNSET == "unset"

\* an int that has not been assigned yet; it is not read before it is
UNINIT == 0 - 1

\* a slot of s->soc[] before object_initialize_child
NoHartArray ==
    [state |-> "none", cpu_type |-> UNSET, hartid_base |-> UNINIT,
     num_harts |-> UNINIT, resetvec |-> UNINIT]

\* g_new(MemoryRegion, 1): allocated, not initialised
NewMemoryRegion == [state |-> "new", name |-> UNSET, size |-> 0, kind |-> UNSET]

\* ms->ram, created by the machine core with the requested size
MachineRam(m) ==
    [state |-> "init", name |-> mc_default_ram_id, size |-> m.ram_size,
     kind |-> "ram"]

Init ==
    /\ ms \in [sockets : Topologies, cpu_type : CpuTypes, ram_size : RamSizes]
    /\ host_big_endian \in BOOLEAN
    /\ pc = "machine_run_board"
    /\ err = ""
    /\ i = UNINIT
    /\ base_hartid = UNINIT
    /\ hart_count = UNINIT
    /\ soc = [k \in 0..(MaxSockets - 1) |-> NoHartArray]
    /\ mask_rom = NewMemoryRegion
    /\ sram = NewMemoryRegion
    /\ system_memory = <<>>
    /\ roms = <<>>
    /\ rom_data = <<>>
    /\ log = <<>>

\* exit(1) / error_fatal: the process ends where it stands
Abort(e) ==
    /\ pc' = "aborted"
    /\ err' = e

Goto(l) ==
    /\ pc' = l
    /\ err' = err

(***************************************************************************)
(* The machine core checks -smp against mc->max_cpus, then calls mc->init. *)
(***************************************************************************)
machine_run_board ==
    /\ pc = "machine_run_board"
    /\ IF smp_cpus(ms) > mc_max_cpus
         THEN Abort("InvalidSmpCpus")
         ELSE Goto("socket_limit")
    /\ UNCHANGED <<ms, host_big_endian, rom_data, i, base_hartid, hart_count, soc,
                   mask_rom, sram, system_memory, roms, log>>

(***************************************************************************)
(* External collaborators used by rhea_machine_init.                       *)
(***************************************************************************)
\* memory_region_add_subregion(system_memory, addr, mr)
memory_region_add_subregion(addr, mr) ==
    Append(system_memory, [addr |-> addr, mr |-> mr])

\* memory_region_init_rom / memory_region_init_ram
memory_region_init(name, size, kind) ==
    [state |-> "init", name |-> name, size |-> size, kind |-> kind]

\* the bytes of a 32-bit word as they lie in the host's memory
WordBytes(w, big) ==
    LET b0 == w % 256
        b1 == (w \div 256) % 256
        b2 == (w \div 65536) % 256
        b3 == (w \div 16777216) % 256
    IN IF big THEN <<b3, b2, b1, b0>> ELSE <<b0, b1, b2, b3>>

RECURSIVE ArrayBytes(_, _)
ArrayBytes(words, big) ==
    IF words = <<>> THEN <<>>
    ELSE WordBytes(Head(words), big) \o ArrayBytes(Tail(words), big)

\* sizeof(reset_vec)
SizeofResetVec == 4 * Len(reset_vec)

\* the memory a new ROM region is backed by: zero-filled
ZeroFilled == [k \in 1..RomWindow |-> 0]

\* mem with data copied to offset off; mem[k] is the byte at offset k - 1
WriteBytes(mem, off, data) ==
    [k \in 1..Len(mem) |->
        IF off < k /\ k <= off + Len(data) THEN data[k - off] ELSE mem[k]]

\* the ROM bytes after data is written at addr of the address space: the
\* bytes land in the ROM where it is mounted over addr
address_space_write(addr, data) ==
    IF \E k \in 1..Len(system_memory) :
           /\ system_memory[k].mr.kind = "rom"
           /\ system_memory[k].addr <= addr
           /\ addr < system_memory[k].addr + system_memory[k].mr.size
      THEN LET k == CHOOSE n \in 1..Len(system_memory) :
                       /\ system_memory[n].mr.kind = "rom"
                       /\ system_memory[n].addr <= addr
                       /\ addr < system_memory[n].addr + system_memory[n].mr.size
           IN WriteBytes(rom_data, addr - system_memory[k].addr, data)
      ELSE rom_data

(***************************************************************************)
(* rhea_machine_init, one action per statement.                            *)
(***************************************************************************)
\* variant of socket_limit: one socket too many is let through
socket_limit_off_by_one ==
    /\ pc = "socket_limit"
    /\ IF RHEA_SOCKETS_MAX + 1 < riscv_socket_count(ms)
         THEN Abort("TooManySockets")
         ELSE Goto("loop_init")
    /\ UNCHANGED <<ms, host_big_endian, rom_data, i, base_hartid, hart_count, soc,
                   mask_rom, sram, system_memory, roms, log>>

\* variant of socket_limit: the comparison is <= instead of <
socket_limit_exclusive ==
    /\ pc = "socket_limit"
    /\ IF RHEA_SOCKETS_MAX <= riscv_socket_count(ms)
         THEN Abort("TooManySockets")
         ELSE Goto("loop_init")
    /\ UNCHANGED <<ms, host_big_endian, rom_data, i, base_hartid, hart_count, soc,
                   mask_rom, sram, system_memory, roms, log>>

\* if (RHEA_SOCKETS_MAX < riscv_socket_count(ms)) exit(1)
socket_limit ==
    /\ pc = "socket_limit"
    /\ IF RHEA_SOCKETS_MAX < riscv_socket_count(ms)
         THEN Abort("TooManySockets")
         ELSE Goto("loop_init")
    /\ UNCHANGED <<ms, host_big_endian, rom_data, i, base_hartid, hart_count, soc,
                   mask_rom, sram, system_memory, roms, log>>

\* for (i = 0; ...
loop_init ==
    /\ pc = "loop_init"
    /\ i' = 0
    /\ Goto("loop_test")
    /\ UNCHANGED <<ms, host_big_endian, rom_data, base_hartid, hart_count, soc,
                   mask_rom, sram, system_memory, roms, log>>

\* variant of loop_test: the loop does not leave when the sockets are done
loop_test_spins ==
    /\ pc = "loop_test"
    /\ IF i < riscv_socket_count(ms)
         THEN Goto("check_hartids")
         ELSE Goto("loop_test")
    /\ UNCHANGED <<ms, host_big_endian, rom_data, i, base_hartid, hart_count,
                   soc, mask_rom, sram, system_memory, roms, log>>

\* variant of loop_test: the loop ends one socket early
loop_test_skips_last ==
    /\ pc = "loop_test"
    /\ IF i < riscv_socket_count(ms) - 1
         THEN Goto("check_hartids")
         ELSE Goto("mount_dram")
    /\ UNCHANGED <<ms, host_big_endian, rom_data, i, base_hartid, hart_count, soc,
                   mask_rom, sram, system_memory, roms, log>>

\* ... i < riscv_socket_count(ms); ...
loop_test ==
    /\ pc = "loop_test"
    /\ IF i < riscv_socket_count(ms)
         THEN Goto("check_hartids")
         ELSE Goto("mount_dram")
    /\ UNCHANGED <<ms, host_big_endian, rom_data, i, base_hartid, hart_count, soc,
                   mask_rom, sram, system_memory, roms, log>>

\* variant of check_hartids: the error is reported but exit(1) is missing
check_hartids_no_exit ==
    /\ pc = "check_hartids"
    /\ log' = Append(log, <<"inspect", i>>)
    /\ pc' = "first_hartid"
    /\ err' = IF ~riscv_socket_check_hartids(ms, i)
                THEN "DiscontinuousHartIds" ELSE err
    /\ UNCHANGED <<ms, host_big_endian, rom_data, i, base_hartid, hart_count,
                   soc, mask_rom, sram, system_memory, roms>>

\* if (!riscv_socket_check_hartids(ms, i)) exit(1)
check_hartids ==
    /\ pc = "check_hartids"
    /\ log' = Append(log, <<"inspect", i>>)
    /\ IF ~riscv_socket_check_hartids(ms, i)
         THEN Abort("DiscontinuousHartIds")
         ELSE Goto("first_hartid")
    /\ UNCHANGED <<ms, host_big_endian, rom_data, i, base_hartid, hart_count, soc,
                   mask_rom, sram, system_memory, roms>>

\* base_hartid = riscv_socket_first_hartid(ms, i); if (base_hartid < 0) exit(1)
first_hartid ==
    /\ pc = "first_hartid"
    /\ base_hartid' = riscv_socket_first_hartid(ms, i)
    /\ IF base_hartid' < 0
         THEN Abort("MissingBaseHartId")
         ELSE Goto("socket_hart_count")
    /\ UNCHANGED <<ms, host_big_endian, rom_data, i, hart_count, soc,
                   mask_rom, sram, system_memory, roms, log>>

\* hart_count = riscv_socket_hart_count(ms, i); if (hart_count < 0) exit(1)
socket_hart_count ==
    /\ pc = "socket_hart_count"
    /\ hart_count' = riscv_socket_hart_count(ms, i)
    /\ IF hart_count' < 0
         THEN Abort("MissingHartCount")
         ELSE Goto("initialize_child")
    /\ UNCHANGED <<ms, host_big_endian, rom_data, i, base_hartid, soc,
                   mask_rom, sram, system_memory, roms, log>>

\* object_initialize_child(OBJECT(ms), soc_name, &s->soc[i], TYPE_RISCV_HART_ARRAY)
object_initialize_child ==
    /\ pc = "initialize_child"
    /\ soc' = [soc EXCEPT ![i] = [NoHartArray EXCEPT !.state = "initialized"]]
    /\ log' = Append(log, <<"create", i>>)
    /\ Goto("set_cpu_type")
    /\ UNCHANGED <<ms, host_big_endian, rom_data, i, base_hartid, hart_count,
                   mask_rom, sram, system_memory, roms>>

\* object_property_set_str(OBJECT(&s->soc[i]), "cpu-type", ms->cpu_type, ...)
set_cpu_type ==
    /\ pc = "set_cpu_type"
    /\ soc' = [soc EXCEPT ![i].cpu_type = ms.cpu_type]
    /\ Goto("set_hartid_base")
    /\ UNCHANGED <<ms, host_big_endian, rom_data, i, base_hartid, hart_count,
                   mask_rom, sram, system_memory, roms, log>>

\* object_property_set_int(OBJECT(&s->soc[i]), "hartid-base", base_hartid, ...)
set_hartid_base ==
    /\ pc = "set_hartid_base"
    /\ soc' = [soc EXCEPT ![i].hartid_base = base_hartid]
    /\ Goto("set_num_harts")
    /\ UNCHANGED <<ms, host_big_endian, rom_data, i, base_hartid, hart_count,
                   mask_rom, sram, system_memory, roms, log>>

\* variant of set_num_harts: base_hartid is passed instead of hart_count
set_num_harts_from_base ==
    /\ pc = "set_num_harts"
    /\ soc' = [soc EXCEPT ![i].num_harts = base_hartid]
    /\ Goto("set_resetvec")
    /\ UNCHANGED <<ms, host_big_endian, rom_data, i, base_hartid, hart_count,
                   mask_rom, sram, system_memory, roms, log>>

\* object_property_set_int(OBJECT(&s->soc[i]), "num-harts", hart_count, ...)
set_num_harts ==
    /\ pc = "set_num_harts"
    /\ soc' = [soc EXCEPT ![i].num_harts = hart_count]
    /\ Goto("set_resetvec")
    /\ UNCHANGED <<ms, host_big_endian, rom_data, i, base_hartid, hart_count,
                   mask_rom, sram, system_memory, roms, log>>

\* variant of set_resetvec: the SRAM base is passed instead of the ROM base
set_resetvec_sram_base ==
    /\ pc = "set_resetvec"
    /\ soc' = [soc EXCEPT ![i].resetvec = rhea_memmap[RHEA_SRAM].base]
    /\ Goto("realize")
    /\ UNCHANGED <<ms, host_big_endian, rom_data, i, base_hartid, hart_count,
                   mask_rom, sram, system_memory, roms, log>>

\* object_property_set_int(OBJECT(&s->soc[i]), "resetvec",
\*                         rhea_memmap[RHEA_ROM].base, ...)
set_resetvec ==
    /\ pc = "set_resetvec"
    /\ soc' = [soc EXCEPT ![i].resetvec = rhea_memmap[RHEA_ROM].base]
    /\ Goto("realize")
    /\ UNCHANGED <<ms, host_big_endian, rom_data, i, base_hartid, hart_count,
                   mask_rom, sram, system_memory, roms, log>>

\* sysbus_realize(SYS_BUS_DEVICE(&s->soc[i]), &error_fatal)
sysbus_realize ==
    /\ pc = "realize"
    /\ \E ok \in BOOLEAN :
         IF ok
           THEN /\ soc' = [soc EXCEPT ![i].state = "realized"]
                /\ log' = Append(log, <<"realize", i>>)
                /\ Goto("loop_incr")
           ELSE /\ Abort("RealizationError")
                /\ UNCHANGED <<soc, log>>
    /\ UNCHANGED <<ms, host_big_endian, rom_data, i, base_hartid, hart_count,
                   mask_rom, sram, system_memory, roms>>

\* ... i++)
loop_incr ==
    /\ pc = "loop_incr"
    /\ i' = i + 1
    /\ Goto("loop_test")
    /\ UNCHANGED <<ms, host_big_endian, rom_data, base_hartid, hart_count, soc,
                   mask_rom, sram, system_memory, roms, log>>

\* variant of mount_dram: the boot ROM is seeded right after the DRAM mount,
\* the ROM is not created
mount_dram_skips_rom ==
    /\ pc = "mount_dram"
    /\ system_memory' =
         memory_region_add_subregion(rhea_memmap[RHEA_DRAM].base, MachineRam(ms))
    /\ log' = Append(log, <<"mount", mc_default_ram_id>>)
    /\ Goto("add_blob")
    /\ UNCHANGED <<ms, host_big_endian, rom_data, i, base_hartid, hart_count, soc,
                   mask_rom, sram, roms>>

\* memory_region_add_subregion(system_memory, rhea_memmap[RHEA_DRAM].base, ms->ram)
mount_dram ==
    /\ pc = "mount_dram"
    /\ system_memory' =
         memory_region_add_subregion(rhea_memmap[RHEA_DRAM].base, MachineRam(ms))
    /\ log' = Append(log, <<"mount", mc_default_ram_id>>)
    /\ Goto("init_rom")
    /\ UNCHANGED <<ms, host_big_endian, rom_data, i, base_hartid, hart_count, soc,
                   mask_rom, sram, roms>>

\* memory_region_init_rom(mask_rom, NULL, "riscv.rhea.mrom",
\*                        rhea_memmap[RHEA_ROM].size, &error_fatal)
init_rom ==
    /\ pc = "init_rom"
    /\ \E ok \in BOOLEAN :
         IF ok
           THEN /\ mask_rom' = memory_region_init("riscv.rhea.mrom",
                                                  rhea_memmap[RHEA_ROM].size, "rom")
                /\ rom_data' = ZeroFilled
                /\ Goto("mount_rom")
           ELSE /\ Abort("RealizationError")
                /\ UNCHANGED <<mask_rom, rom_data>>
    /\ UNCHANGED <<ms, host_big_endian, i, base_hartid, hart_count, soc,
                   sram, system_memory, roms, log>>

\* variant of mount_rom: the ROM is mounted at the SRAM base
mount_rom_at_sram_base ==
    /\ pc = "mount_rom"
    /\ system_memory' =
         memory_region_add_subregion(rhea_memmap[RHEA_SRAM].base, mask_rom)
    /\ log' = Append(log, <<"mount", mask_rom.name>>)
    /\ Goto("add_blob")
    /\ UNCHANGED <<ms, host_big_endian, rom_data, i, base_hartid, hart_count, soc,
                   mask_rom, sram, roms>>

\* memory_region_add_subregion(system_memory, rhea_memmap[RHEA_ROM].base, mask_rom)
mount_rom ==
    /\ pc = "mount_rom"
    /\ system_memory' =
         memory_region_add_subregion(rhea_memmap[RHEA_ROM].base, mask_rom)
    /\ log' = Append(log, <<"mount", mask_rom.name>>)
    /\ Goto("add_blob")
    /\ UNCHANGED <<ms, host_big_endian, rom_data, i, base_hartid, hart_count, soc,
                   mask_rom, sram, roms>>

\* variant of rom_add_blob_fixed_as: each blob is placed behind the blobs
\* registered before it
rom_add_blob_appends ==
    /\ pc = "add_blob"
    /\ LET data == SubSeq(ArrayBytes(reset_vec, host_big_endian),
                          1, SizeofResetVec)
           addr == rhea_memmap[RHEA_ROM].base + 4 * Len(roms)
       IN /\ roms' = Append(roms,
                        [name |-> "mrom.reset", addr |-> addr, data |-> data])
          /\ rom_data' = address_space_write(addr, data)
    /\ log' = Append(log, <<"blob", "mrom.reset">>)
    /\ Goto("init_sram")
    /\ UNCHANGED <<ms, host_big_endian, i, base_hartid, hart_count, soc,
                   mask_rom, sram, system_memory>>

\* rom_add_blob_fixed_as("mrom.reset", reset_vec, sizeof(reset_vec),
\*                       rhea_memmap[RHEA_ROM].base, &address_space_memory)
rom_add_blob_fixed_as ==
    /\ pc = "add_blob"
    /\ LET data == SubSeq(ArrayBytes(reset_vec, host_big_endian),
                          1, SizeofResetVec)
       IN /\ roms' = Append(roms,
                        [name |-> "mrom.reset",
                         addr |-> rhea_memmap[RHEA_ROM].base,
                         data |-> data])
          /\ rom_data' = address_space_write(rhea_memmap[RHEA_ROM].base, data)
    /\ log' = Append(log, <<"blob", "mrom.reset">>)
    /\ Goto("init_sram")
    /\ UNCHANGED <<ms, host_big_endian, i, base_hartid, hart_count, soc,
                   mask_rom, sram, system_memory>>

\* variant of init_sram: mask_rom is initialised a second time in place of sram
init_sram_reinits_rom ==
    /\ pc = "init_sram"
    /\ \E ok \in BOOLEAN :
         IF ok
           THEN /\ mask_rom' = memory_region_init("riscv.rhea.sram",
                                                  rhea_memmap[RHEA_SRAM].size, "ram")
                /\ rom_data' = ZeroFilled
                /\ Goto("mount_sram")
           ELSE /\ Abort("RealizationError")
                /\ UNCHANGED <<mask_rom, rom_data>>
    /\ UNCHANGED <<ms, host_big_endian, i, base_hartid, hart_count, soc,
                   sram, system_memory, roms, log>>

\* variant of init_sram: the SRAM is created with the size of the ROM
init_sram_rom_size ==
    /\ pc = "init_sram"
    /\ \E ok \in BOOLEAN :
         IF ok
           THEN /\ sram' = memory_region_init("riscv.rhea.sram",
                                              rhea_memmap[RHEA_ROM].size, "ram")
                /\ Goto("mount_sram")
           ELSE /\ Abort("RealizationError")
                /\ UNCHANGED sram
    /\ UNCHANGED <<ms, host_big_endian, rom_data, i, base_hartid, hart_count, soc,
                   mask_rom, system_memory, roms, log>>

\* memory_region_init_ram(sram, NULL, "riscv.rhea.sram",
\*                        rhea_memmap[RHEA_SRAM].size, &error_fatal)
init_sram ==
    /\ pc = "init_sram"
    /\ \E ok \in BOOLEAN :
         IF ok
           THEN /\ sram' = memory_region_init("riscv.rhea.sram",
                                              rhea_memmap[RHEA_SRAM].size, "ram")
                /\ Goto("mount_sram")
           ELSE /\ Abort("RealizationError")
                /\ UNCHANGED sram
    /\ UNCHANGED <<ms, host_big_endian, rom_data, i, base_hartid, hart_count, soc,
                   mask_rom, system_memory, roms, log>>

\* variant of mount_sram: the SRAM is mounted at the base of the UART0 entry
mount_sram_at_uart0 ==
    /\ pc = "mount_sram"
    /\ system_memory' =
         memory_region_add_subregion(rhea_memmap[RHEA_UART0].base, sram)
    /\ log' = Append(log, <<"mount", sram.name>>)
    /\ Goto("done")
    /\ UNCHANGED <<ms, host_big_endian, rom_data, i, base_hartid, hart_count,
                   soc, mask_rom, sram, roms>>

\* memory_region_add_subregion(system_memory, rhea_memmap[RHEA_SRAM].base, sram)
mount_sram ==
    /\ pc = "mount_sram"
    /\ system_memory' =
         memory_region_add_subregion(rhea_memmap[RHEA_SRAM].base, sram)
    /\ log' = Append(log, <<"mount", sram.name>>)
    /\ Goto("done")
    /\ UNCHANGED <<ms, host_big_endian, rom_data, i, base_hartid, hart_count, soc,
                   mask_rom, sram, roms>>

rhea_machine_init ==
    \/ socket_limit
    \/ loop_init
    \/ loop_test
    \/ check_hartids
    \/ first_hartid
    \/ socket_hart_count
    \/ object_initialize_child
    \/ set_cpu_type
    \/ set_hartid_base
    \/ set_num_harts
    \/ set_resetvec
    \/ sysbus_realize
    \/ loop_incr
    \/ mount_dram
    \/ init_rom
    \/ mount_rom
    \/ rom_add_blob_fixed_as
    \/ init_sram
    \/ mount_sram

Next ==
    \/ machine_run_board
    \/ rhea_machine_init

Spec == Init /\ [][Next]_vars

\* the function runs on one thread and no statement blocks: a step that can
\* be taken is taken
FairSpec == Spec /\ WF_vars(Next)

(***************************************************************************)
(* The seeding step on its own: rom_add_blob_fixed_as applied to a mounted *)
(* ROM with any contents, then applied again with the same arguments.      *)
(***************************************************************************)
\* how often the seeding step is applied
MaxSeeds == 2

DirtyBytes == {0, 111, 255}

\* the offsets where the ROM holds any byte before the seeding
DirtyOffsets == {0, SizeofResetVec - 1, SizeofResetVec, RomWindow - 1}

\* the state rhea_machine_init is in before line 99, for 1 socket with hart 0
SeedInit ==
    /\ ms = [sockets |-> <<{0}>>, cpu_type |-> mc_default_cpu_type,
             ram_size |-> mc_default_ram_size]
    /\ host_big_endian \in BOOLEAN
    /\ pc = "add_blob"
    /\ err = ""
    /\ i = 1
    /\ base_hartid = 0
    /\ hart_count = 1
    /\ soc = [k \in 0..(MaxSockets - 1) |->
                IF k = 0
                  THEN [state |-> "realized", cpu_type |-> mc_default_cpu_type,
                        hartid_base |-> 0, num_harts |-> 1,
                        resetvec |-> rhea_memmap[RHEA_ROM].base]
                  ELSE NoHartArray]
    /\ mask_rom = memory_region_init("riscv.rhea.mrom",
                                     rhea_memmap[RHEA_ROM].size, "rom")
    /\ sram = NewMemoryRegion
    /\ system_memory =
         <<[addr |-> rhea_memmap[RHEA_DRAM].base,
            mr |-> [state |-> "init", name |-> mc_default_ram_id,
                    size |-> mc_default_ram_size, kind |-> "ram"]],
           [addr |-> rhea_memmap[RHEA_ROM].base,
            mr |-> memory_region_init("riscv.rhea.mrom",
                                      rhea_memmap[RHEA_ROM].size, "rom")]>>
    /\ roms = <<>>
    /\ \E d \in [DirtyOffsets -> DirtyBytes] :
         rom_data = [k \in 1..RomWindow |->
                        IF k - 1 \in DirtyOffsets THEN d[k - 1] ELSE 0]
    /\ log = <<<<"inspect", 0>>, <<"create", 0>>, <<"realize", 0>>,
               <<"mount", mc_default_ram_id>>, <<"mount", "riscv.rhea.mrom">>>>

\* the seeding step is invoked again with the same arguments
reinvoke ==
    /\ pc = "init_sram"
    /\ Len(roms) < MaxSeeds
    /\ pc' = "add_blob"
    /\ UNCHANGED <<ms, host_big_endian, rom_data, err, i, base_hartid,
                   hart_count, soc, mask_rom, sram, system_memory, roms, log>>

SeedNext ==
    \/ rom_add_blob_fixed_as
    \/ reinvoke

SeedSpec == SeedInit /\ [][SeedNext]_vars

(***************************************************************************)
(* Vocabulary of the properties.                                           *)
(***************************************************************************)
\* the ranges mounted so far, with the kind of the region behind each
MountedRanges ==
    {[base |-> system_memory[k].addr, size |-> system_memory[k].mr.size,
      kind |-> system_memory[k].mr.kind] : k \in 1..Len(system_memory)}

\* the ROM range [0x0, 0x40000) is mounted
RomMounted ==
    \E r \in MountedRanges : r.base = 0 /\ r.size = 262144 /\ r.kind = "rom"

\* the SRAM range [0x100000, 0x180000) is mounted
SramMounted ==
    \E r \in MountedRanges : r.base = 1048576 /\ r.size = 524288 /\ r.kind = "ram"

\* the RAM backing is mounted at 0x40000000
DramMounted ==
    \E r \in MountedRanges : r.base = 1073741824 /\ r.size = ms.ram_size

Sockets == 0..(riscv_socket_count(ms) - 1)

Activated(k) == soc[k].state = "realized"

AllActivated == \A k \in Sockets : k \in DOMAIN soc /\ Activated(k)

NoHartArrays == \A k \in DOMAIN soc : soc[k].state = "none"

BlobWritten == roms # <<>>

Running == pc = "done"

Aborted == pc = "aborted"

\* rhea_machine_init has been entered
Entered == pc # "machine_run_board" /\ err # "InvalidSmpCpus"

ConfigurationErrors ==
    {"TooManySockets", "DiscontinuousHartIds", "MissingBaseHartId",
     "MissingHartCount"}

\* ids is the run b, b+1, ..., b+n-1
IsRun(ids, b, n) == ids = {b + j : j \in 0..(n - 1)}

\* the events of one type in the log, in order
RECURSIVE EventsOf(_, _)
EventsOf(type, l) ==
    IF l = <<>> THEN <<>>
    ELSE IF Head(l)[1] = type THEN <<Head(l)[2]>> \o EventsOf(type, Tail(l))
    ELSE EventsOf(type, Tail(l))

\* the phase a logged step belongs to
Phase(e) ==
    CASE e[1] \in {"inspect", "create", "realize"} -> 1
      [] e = <<"mount", "riscv.rhea.dram">> -> 2
      [] e = <<"mount", "riscv.rhea.mrom">> -> 3
      [] e = <<"blob", "mrom.reset">> -> 4
      [] e = <<"mount", "riscv.rhea.sram">> -> 5
      [] OTHER -> 0

LogPhases == {Phase(log[k]) : k \in 1..Len(log)}

C3_BlobIntoMountedRom ==
    /\ \A b \in 1..Len(roms) :
         /\ roms[b].addr = 0
         /\ \E k \in 1..Len(system_memory) :
              /\ system_memory[k].addr = roms[b].addr
              /\ system_memory[k].mr.state = "init"
              /\ system_memory[k].mr.kind = "rom"
              /\ system_memory[k].mr = mask_rom
    /\ \A b \in 1..Len(log) :
         Phase(log[b]) = 4 => \E a \in 1..(b - 1) : Phase(log[a]) = 3

C3_Witness ==
    /\ pc = "init_sram"
    /\ Len(roms) = 1
    /\ RomMounted

(***************************************************************************)
(* C4                                                                      *)
(***************************************************************************)
\* C4: when bring-up aborts with a configuration error (too many sockets,
\* discontinuous hart ids, missing base hart id, missing hart count), no
\* region is mounted, no hart array is created or activated and no boot blob
\* is written.
C4_ConfigErrorAllOrNothing ==
    (Aborted /\ err \in ConfigurationErrors) =>
        /\ system_memory = <<>>
        /\ NoHartArrays
        /\ roms = <<>>
        /\ EventsOf("create", log) = <<>>

C4_Witness ==
    /\ Aborted
    /\ err = "DiscontinuousHartIds"
    /\ ms.sockets = <<{0, 1, 3}>>

C6_SocketLimitFirstInclusive ==
    /\ (riscv_socket_count(ms) > 1 /\ Entered /\ pc # "socket_limit") =>
          /\ Aborted
          /\ err = "TooManySockets"
          /\ log = <<>>
          /\ i = UNINIT
    /\ riscv_socket_count(ms) <= 1 => err # "TooManySockets"
    /\ (riscv_socket_count(ms) = 1 /\ Entered /\ pc # "socket_limit") =>
          pc # "aborted" \/ Len(log) > 0

C6_Witness ==
    /\ riscv_socket_count(ms) = 2
    /\ Aborted
    /\ err = "TooManySockets"

(***************************************************************************)
(* C7                                                                      *)
(***************************************************************************)
\* positions of the loop body after the three validation checks of a socket
PastValidation ==
    {"initialize_child", "set_cpu_type", "set_hartid_base", "set_num_harts",
     "set_resetvec", "realize"}

\* the base hart id and hart count of socket 0 are carried forward as b and n
CarriedForward(b, n) ==
    /\ pc \in PastValidation => (base_hartid = b /\ hart_count = n)
    /\ pc \in {"set_num_harts", "set_resetvec", "realize"} =>
          soc[0].hartid_base = b
    /\ pc \in {"set_resetvec", "realize"} => soc[0].num_harts = n
    /\ Activated(0) => (soc[0].hartid_base = b /\ soc[0].num_harts = n)

\* C7: for every topology of at most 1 socket whose hart ids are one
\* contiguous run, the bring-up does not abort with a configuration error,
\* and the base hart id and hart count carried forward to the construction
\* of the hart array are the base and the length of that run.
C7_RunAccepted ==
    /\ riscv_socket_count(ms) = 0 => err \notin ConfigurationErrors
    /\ \A b \in HartIds, n \in 1..(MaxHartId + 1) :
        (riscv_socket_count(ms) = 1 /\ IsRun(ms.sockets[1], b, n)) =>
            /\ err \notin ConfigurationErrors
            /\ CarriedForward(b, n)
            /\ (Entered /\ pc \notin {"socket_limit", "loop_init", "loop_test",
                                      "check_hartids", "first_hartid",
                                      "socket_hart_count", "initialize_child",
                                      "aborted"}) =>
                  soc[0].state # "none"

C7_Witness ==
    /\ ms.sockets = <<{1, 2, 3}>>
    /\ Activated(0)
    /\ soc[0].hartid_base = 1
    /\ soc[0].num_harts = 3

(***************************************************************************)
(* C8                                                                      *)
(***************************************************************************)
\* C8: a successful bring-up has created and activated exactly one hart
\* array per validated socket, in ascending socket order, each with the
\* machine's processor type, the socket's base hart id and hart count and
\* reset address 0x0; no other slot holds a hart array.
C8_OneArrayPerSocket ==
    Running =>
        /\ \A k \in DOMAIN soc :
             IF k \in Sockets
               THEN soc[k] = [state |-> "realized",
                              cpu_type |-> ms.cpu_type,
                              hartid_base |-> SetMin(ms.sockets[k + 1]),
                              num_harts |-> Cardinality(ms.sockets[k + 1]),
                              resetvec |-> 0]
               ELSE soc[k].state = "none"
        /\ EventsOf("create", log) = [k \in 1..riscv_socket_count(ms) |-> k - 1]
        /\ EventsOf("realize", log) = [k \in 1..riscv_socket_count(ms) |-> k - 1]

C8_Witness ==
    /\ Running
    /\ ms.sockets = <<{2, 3}>>
    /\ soc[0].state = "realized"

(***************************************************************************)
(* C9                                                                      *)
(***************************************************************************)
\* C9: the half-open ranges [base, base+size) of the regions mounted so far
\* are pairwise non-overlapping, whatever the size of the RAM backing.
C9_NonOverlapping ==
    \A a, b \in 1..Len(system_memory) :
        a # b =>
            \/ system_memory[a].addr + system_memory[a].mr.size
                   <= system_memory[b].addr
            \/ system_memory[b].addr + system_memory[b].mr.size
                   <= system_memory[a].addr

C9_Witness ==
    /\ Len(system_memory) = 3
    /\ ms.ram_size = MaxRamUnits * RamUnit

(***************************************************************************)
(* C10                                                                     *)
(***************************************************************************)
\* C10, as claimed: after the memory map is built the mounted ranges are
\* exactly ROM [0x0, 0x40000), SRAM [0x100000, 0x180000) and DRAM
\* [0x40000000, 0x40000000 + 570 MiB), ROM read-only and SRAM read/write.
C10_FixedRanges ==
    Running =>
        /\ Len(system_memory) = 3
        /\ MountedRanges =
             {[base |-> 0, size |-> 262144, kind |-> "rom"],
              [base |-> 1048576, size |-> 524288, kind |-> "ram"],
              [base |-> 1073741824, size |-> 597688320, kind |-> "ram"]}

\* C10, amended: after the memory map is built the mounted ranges are exactly
\* ROM [0x0, 0x40000), SRAM [0x100000, 0x180000) and DRAM [0x40000000,
\* 0x40000000 + the size of the RAM backing), ROM read-only and SRAM
\* read/write; 570 MiB is the default size of the RAM backing.
C10_RangesWithRamSize ==
    /\ mc_default_ram_size = 597688320
    /\ Running =>
        /\ Len(system_memory) = 3
        /\ MountedRanges =
             {[base |-> 0, size |-> 262144, kind |-> "rom"],
              [base |-> 1048576, size |-> 524288, kind |-> "ram"],
              [base |-> 1073741824, size |-> ms.ram_size, kind |-> "ram"]}

C10_Witness ==
    /\ Running
    /\ ms.ram_size # 597688320
    /\ Len(system_memory) = 3

(***************************************************************************)
(* C11                                                                     *)
(***************************************************************************)
\* C11: the reserved peripheral window [0x06000000, 0x06000100) is never
\* mounted: no mounted region has that range and no mounted range
\* intersects it.
C11_WindowNeverMounted ==
    \A k \in 1..Len(system_memory) :
        /\ system_memory[k].addr # 100663296
        /\ \/ system_memory[k].addr + system_memory[k].mr.size <= 100663296
           \/ 100663296 + 256 <= system_memory[k].addr

C11_Witness ==
    /\ Running
    /\ Len(system_memory) = 3
    /\ ms.ram_size = MaxRamUnits * RamUnit

(***************************************************************************)
(* C13                                                                     *)
(***************************************************************************)
\* the ROM bytes at offsets first .. last
RomBytes(first, last) == [k \in 1..(last - first + 1) |-> rom_data[first + k]]

\* the offsets of the ROM the registered blobs cover
SeededOffsets ==
    UNION {{roms[b].addr + k - 1 : k \in 1..Len(roms[b].data)}
           : b \in 1..Len(roms)}

\* C13: the seeding writes a blob of exactly 4 bytes, 6F 00 00 00, at the
\* reset address 0x0, and does not write the ROM bytes at offsets 4 and above.
C13_FourByteBlob ==
    BlobWritten =>
        /\ Len(roms) = 1
        /\ roms[1].addr = 0
        /\ roms[1].data = <<111, 0, 0, 0>>
        /\ RomBytes(0, 3) = <<111, 0, 0, 0>>
        /\ \A o \in SeededOffsets : o < 4

(***************************************************************************)
(* C14                                                                     *)
(***************************************************************************)
\* C14: an abort is terminal: once a validation or activation failure has
\* been reported the bring-up is in the aborted state, nothing changes any
\* more (no socket is processed, no region mounted, no blob written) and
\* Running is not reached.
C14_AbortTerminal ==
    /\ [](err # "" <=> Aborted)
    /\ [][err # "" => UNCHANGED vars]_vars

C14_Witness ==
    /\ Aborted
    /\ err = "RealizationError"
    /\ soc[0].state = "initialized"
    /\ system_memory = <<>>

(***************************************************************************)
(* C15                                                                     *)
(***************************************************************************)
\* C15: the boot image is written exactly once per bring-up and not changed
\* afterwards: a finished bring-up has seeded once, and no step after the
\* seeding (the SRAM mount included) changes a ROM byte or seeds again.
C15_WrittenOnce ==
    /\ [](Len(roms) <= 1)
    /\ [](Running => Len(roms) = 1)
    /\ [][BlobWritten => (roms' = roms /\ rom_data' = rom_data)]_vars

C15_Witness ==
    /\ Running
    /\ Len(roms) = 1
    /\ rom_data = WriteBytes(ZeroFilled, 0, roms[1].data)

(***************************************************************************)
(* C16                                                                     *)
(***************************************************************************)
\* C16: seeding is idempotent: applying the seeding step a second time to
\* the same ROM at the same reset address leaves every ROM byte as the first
\* application left it.
C16_SeedIdempotent ==
    [][(pc = "add_blob" /\ BlobWritten) => rom_data' = rom_data]_vars

C16_Witness ==
    /\ Len(roms) = 2
    /\ roms[1] = roms[2]
    /\ rom_data[RomWindow] = 255

(***************************************************************************)
(* C17                                                                     *)
(***************************************************************************)
\* 1 socket, 1 hart with id 0, the default processor type
DefaultConfiguration ==
    /\ ms.sockets = <<{0}>>
    /\ ms.cpu_type = mc_default_cpu_type

\* C17: the default configuration reaches Running with exactly one activated
\* hart array, with base hart id 0, hart count 1 and reset address 0x0, and
\* with the ROM bytes 6F 00 00 00 at offset 0.
C17_DefaultEndToEnd ==
    (DefaultConfiguration /\ Running) =>
        /\ {k \in DOMAIN soc : soc[k].state # "none"} = {0}
        /\ Activated(0)
        /\ soc[0].hartid_base = 0
        /\ soc[0].num_harts = 1
        /\ soc[0].resetvec = 0
        /\ RomBytes(0, 3) = <<111, 0, 0, 0>>

(***************************************************************************)
(* C18                                                                     *)
(***************************************************************************)
\* positions at which s->soc[i] is initialized, configured or activated
SocAccess ==
    {"initialize_child", "set_cpu_type", "set_hartid_base", "set_num_harts",
     "set_resetvec", "realize"}

\* C18: s->soc[] is never indexed out of bounds: whenever soc[i] is
\* initialized, configured or activated, i is below the capacity
\* RHEA_SOCKETS_MAX = 1, whatever socket count the topology provider reports.
C18_SocIndexInBounds ==
    /\ pc \in SocAccess => (0 <= i /\ i < 1)
    /\ \A k \in DOMAIN soc : soc[k].state # "none" => k < 1

C18_Witness ==
    /\ pc = "realize"
    /\ i = 0
    /\ soc[0].state = "initialized"

(***************************************************************************)
(* C19                                                                     *)
(***************************************************************************)
\* no step of the log is taken twice
NoStepRetried ==
    \A a, b \in 1..Len(log) : a # b => log[a] # log[b]

\* C19: every bring-up terminates: it reaches Running or Aborted, the socket
\* loop runs at most socket-count iterations and no step is retried.
C19_Terminates ==
    /\ <>(Running \/ Aborted)
    /\ [](Len(EventsOf("inspect", log)) <= riscv_socket_count(ms))
    /\ []NoStepRetried

C19_Witness ==
    /\ Running
    /\ riscv_socket_count(ms) = 1
    /\ EventsOf("inspect", log) = <<0>>
    /\ NoStepRetried
====
